---- MODULE Spec2Model ----
(***************************************************************************)
(* A model of insignia (src/src/lib.rs, src/src/main.rs): a command-line   *)
(* tag editor.  One invocation is main(): Config::new resolves the parsed  *)
(* options (getopts Matches) into a command list, Config::exec applies the *)
(* list to every target file through a lofty tag session.  The file system *)
(* (the tag container of each audio file) outlives an invocation, so a run *)
(* of the model is a sequence of invocations on one disk.                  *)
(*                                                                         *)
(* Option<T> is modelled as a sequence: <<>> is None and <<v>> is Some(v). *)
(* A String that is parsed is a sequence of one-character strings.         *)
(***************************************************************************)
EXTENDS Integers, Sequences, FiniteSets, TLC

(***************************************************************************)
(* Bounds of the model                                                     *)
(***************************************************************************)
\* the number of options (field options, --clear and --help occurrences)
\* of the invocation, in a run of one invocation
MaxOpts == 2
\* the number of invocations in a run of several, and the number of options
\* and of free arguments of each
MaxInvocations == 2
MaxOptsEach == 1
MaxFilesEach == 1
\* the number of free arguments (target files) of one invocation
MaxFiles == 2

(***************************************************************************)
(* enum Field, enum Data, enum Command                                     *)
(***************************************************************************)
Fields == {"Track", "Year", "Disc", "Title", "Artist", "Album", "AlbumArtist", "Image"}

IntFields == {"Track", "Year", "Disc"}

StrFields == {"Title", "Artist", "Album", "AlbumArtist"}

\* the year block placed before the track block
FieldOrderYearFirst ==
    <<"Year", "Track", "Disc", "Title", "Artist", "Album", "AlbumArtist", "Image">>

\* the order in which Config::new looks at the field options
FieldOrder == <<"Track", "Year", "Disc", "Title", "Artist", "Album", "AlbumArtist", "Image">>

DataInt(i) == [kind |-> "Int", int |-> i, str |-> ""]

DataStr(s) == [kind |-> "Str", int |-> 0, str |-> s]

DataFile(p) == [kind |-> "File", int |-> 0, str |-> p]

DataStdIn == [kind |-> "StdIn", int |-> 0, str |-> ""]

NoData == [kind |-> "None", int |-> 0, str |-> ""]

CmdPrint(f) == [op |-> "Print", field |-> f, data |-> NoData]

CmdClear(f) == [op |-> "Clear", field |-> f, data |-> NoData]

CmdSet(f, d) == [op |-> "Set", field |-> f, data |-> d]

\* str_to_field: None is <<>>
str_to_field(s) ==
    CASE s = "track" -> <<"Track">>
      [] s = "year" -> <<"Year">>
      [] s = "disc" -> <<"Disc">>
      [] s = "title" -> <<"Title">>
      [] s = "artist" -> <<"Artist">>
      [] s = "album" -> <<"Album">>
      [] s = "albumartist" -> <<"AlbumArtist">>
      [] s = "image" -> <<"Image">>
      [] OTHER -> <<>>

\* the long option of a field, as registered with getopts
OptName(f) ==
    CASE f = "Track" -> "track"
      [] f = "Year" -> "year"
      [] f = "Disc" -> "disc"
      [] f = "Title" -> "title"
      [] f = "Artist" -> "artist"
      [] f = "Album" -> "album"
      [] f = "AlbumArtist" -> "albumartist"
      [] f = "Image" -> "image"

\* the options registered with getopts besides help and clear; "comment" is
\* registered and never read
OptNames == {"track", "year", "disc", "title", "artist", "album", "albumartist", "comment", "image"}

(***************************************************************************)
(* i32::from_str_radix(s.trim(), 10)                                       *)
(***************************************************************************)
I32Max == 2147483647

I32Min == (-I32Max) - 1

IsWhite(c) == c = " "

RECURSIVE TrimStart(_)
TrimStart(s) ==
    IF s # <<>> /\ IsWhite(Head(s)) THEN TrimStart(Tail(s)) ELSE s

RECURSIVE TrimEnd(_)
TrimEnd(s) ==
    IF s # <<>> /\ IsWhite(s[Len(s)]) THEN TrimEnd(SubSeq(s, 1, Len(s) - 1)) ELSE s

Trim(s) == TrimEnd(TrimStart(s))

Digits == {"0", "1", "2", "3", "4", "5", "6", "7", "8", "9"}

DigitVal(c) ==
    CASE c = "0" -> 0 [] c = "1" -> 1 [] c = "2" -> 2 [] c = "3" -> 3 [] c = "4" -> 4
      [] c = "5" -> 5 [] c = "6" -> 6 [] c = "7" -> 7 [] c = "8" -> 8 [] c = "9" -> 9

ParseErr == [ok |-> FALSE, val |-> 0]

\* the digit loop of from_str_radix: acc is multiplied by the radix and the
\* digit is added (sign = 1) or subtracted (sign = -1), checked against i32
RECURSIVE ParseDigits(_, _, _)
ParseDigits(ds, sign, acc) ==
    IF ds = <<>> THEN [ok |-> TRUE, val |-> acc]
    ELSE IF Head(ds) \notin Digits THEN ParseErr
    ELSE LET n == acc * 10 + sign * DigitVal(Head(ds))
         IN  IF n > I32Max \/ n < I32Min THEN ParseErr
             ELSE ParseDigits(Tail(ds), sign, n)

\* i32::from_str_radix(s, 10): an empty string, or a sign alone, is an error
FromStrRadix10(s) ==
    IF s = <<>> THEN ParseErr
    ELSE IF Head(s) \in {"+", "-"}
         THEN IF Len(s) = 1 THEN ParseErr
              ELSE ParseDigits(Tail(s), IF Head(s) = "-" THEN -1 ELSE 1, 0)
         ELSE ParseDigits(s, 1, 0)

ParseI32(s) == FromStrRadix10(Trim(s))

(***************************************************************************)
(* The environment: the file system, the tag store and the image sniffer   *)
(***************************************************************************)
\* audio files whose tag container lofty can read
AudioPaths == {"a.mp3", "b.mp3"}

\* Path::is_file: the regular files; "gone.mp3" names no file
RegularFiles == AudioPaths \cup {"notes.txt", "cover.png", "anim.webp"}

IsFile(p) == p \in RegularFiles

\* the free arguments and the --image values an invocation is given
TargetPaths == AudioPaths \cup {"notes.txt", "gone.mp3"}

ImageArgs == {"-", "cover.png", "anim.webp", "notes.txt", "gone.mp3"}

\* what read_to_end yields for a file
FileBytes(p) ==
    CASE p = "cover.png" -> "png-bytes"
      [] p = "anim.webp" -> "webp-bytes"
      [] p = "notes.txt" -> "text-bytes"
      [] OTHER -> "audio-bytes"

\* an image piped to the process on its standard input
StdinBytes == "jpeg-bytes"

\* what may be piped to the process: the image, or something that is none
Piped == {StdinBytes, "text-bytes"}

\* standard input before the first read_to_end
Unread == "unread"

\* standard input read again without being at its end
ExhaustedRewound == StdinBytes

\* after read_to_end, standard input is at its end: a further read_to_end
\* yields no bytes
Exhausted == ""

\* Reader::with_guessed_format().format(): the format the magic bytes show
Sniff(bytes) ==
    CASE bytes = "png-bytes" -> <<"Png">>
      [] bytes = "jpeg-bytes" -> <<"Jpeg">>
      [] bytes = "webp-bytes" -> <<"WebP">>
      [] OTHER -> <<>>

\* the match on reader.format(): the MimeType of a supported format
MimeOf(fmt) ==
    IF fmt # <<>> /\ fmt[1] \in {"Png", "Jpeg", "Tiff", "Bmp", "Gif"} THEN fmt ELSE <<>>

\* a tag with no field stored
EmptyTag == [f \in Fields |-> <<>>]

(***************************************************************************)
(* getopts Matches                                                         *)
(***************************************************************************)
Absent == [present |-> FALSE, val |-> <<>>]

Flag == [present |-> TRUE, val |-> <<>>]

Val(s) == [present |-> TRUE, val |-> <<s>>]

\* the characters of the strings given to the integer options
Chars(s) ==
    CASE s = "7" -> <<"7">>
      [] s = "-5" -> <<"-", "5">>
      [] s = " 3 " -> <<" ", "3", " ">>
      [] s = "x" -> <<"x">>
      [] OTHER -> <<>>

IntArgs == {"7", "-5", " 3 ", "x"}

StrArgs == {"foo"}

ClearArgs == {"track", "year", "disc", "title", "artist", "album", "albumartist", "image", "bogus"}

OptChoices(n) ==
    {Flag} \cup
    { Val(s) : s \in (IF n \in {"track", "year", "disc"} THEN IntArgs
                      ELSE IF n = "image" THEN ImageArgs
                      ELSE StrArgs) }

NoOpts == [n \in OptNames |-> Absent]

\* the option tables with at most k options present
RECURSIVE OptsUpTo(_)
OptsUpTo(k) ==
    IF k <= 0 THEN {NoOpts}
    ELSE LET P == OptsUpTo(k - 1)
         IN  P \cup UNION { UNION { { [o EXCEPT ![n] = v] : v \in OptChoices(n) }
                                    : n \in {m \in OptNames : ~o[m].present} }
                            : o \in P }

\* the sequences over S of length at most k
RECURSIVE SeqsUpTo(_, _)
SeqsUpTo(S, k) ==
    IF k <= 0 THEN {<<>>}
    ELSE LET P == SeqsUpTo(S, k - 1)
         IN  P \cup { Append(q, x) : q \in {p \in P : Len(p) = k - 1}, x \in S }

\* opts.parse failed (Fail::UnrecognizedOption, Fail::OptionDuplicated, ...)
BadArgs == [parsed |-> FALSE, help |-> FALSE, opts |-> NoOpts, clear |-> <<>>, free |-> <<>>]

NumOpts(a) ==
    Cardinality({n \in OptNames : a.opts[n].present}) + Len(a.clear)
        + (IF a.help THEN 1 ELSE 0)

\* the argument lists with at most k options and at most m free arguments
ArgSpace(k, m) ==
    {BadArgs} \cup
    UNION { UNION { { [parsed |-> TRUE, help |-> h, opts |-> o, clear |-> c, free |-> fr]
                      : o \in OptsUpTo(k - Len(c) - (IF h THEN 1 ELSE 0)),
                        fr \in SeqsUpTo(TargetPaths, m) }
                    : c \in SeqsUpTo(ClearArgs, k - (IF h THEN 1 ELSE 0)) }
            : h \in {b \in BOOLEAN : b => k >= 1} }

(***************************************************************************)
(* Config::new                                                             *)
(***************************************************************************)
\* Err(Error::new(name, &opts, error_str, code)); the message is named by its
\* kind, "usage" when error_str is None.  An Err carries no Config: its
\* commands are empty, and files are the free arguments main still holds.
Err(code, msg, a) ==
    [ok |-> FALSE, code |-> code, msg |-> msg, commands |-> <<>>, files |-> a.free]

Ok(cmds, a) ==
    [ok |-> TRUE, code |-> 0, msg |-> "", commands |-> cmds, files |-> a.free]

\* the block of one field option: no command, Print, Set, or an error
FieldCommand(a, f) ==
    LET o == a.opts[OptName(f)]
    IN  IF ~o.present THEN [ok |-> TRUE, code |-> 0, msg |-> "", cmds |-> <<>>]
        ELSE IF o.val = <<>>
             THEN [ok |-> TRUE, code |-> 0, msg |-> "", cmds |-> <<CmdPrint(f)>>]
        ELSE IF f \in IntFields
             THEN LET r == ParseI32(Chars(o.val[1]))
                  IN  IF r.ok
                      THEN [ok |-> TRUE, code |-> 0, msg |-> "",
                            cmds |-> <<CmdSet(f, DataInt(r.val))>>]
                      ELSE [ok |-> FALSE, code |-> 3, msg |-> "not an integer", cmds |-> <<>>]
        ELSE IF f \in StrFields
             THEN [ok |-> TRUE, code |-> 0, msg |-> "",
                   cmds |-> <<CmdSet(f, DataStr(o.val[1]))>>]
        ELSE IF o.val[1] # "-"
             THEN IF ~IsFile(o.val[1])
                  THEN [ok |-> FALSE, code |-> 2, msg |-> "file does not exist", cmds |-> <<>>]
                  ELSE [ok |-> TRUE, code |-> 0, msg |-> "",
                        cmds |-> <<CmdSet(f, DataFile(o.val[1]))>>]
        ELSE [ok |-> TRUE, code |-> 0, msg |-> "", cmds |-> <<CmdSet(f, DataStdIn)>>]

\* the field blocks in source order, from the i-th on; the first error returns
RECURSIVE ResolveFields(_, _, _)
ResolveFields(a, i, cmds) ==
    IF i > Len(FieldOrder) THEN [ok |-> TRUE, code |-> 0, msg |-> "", cmds |-> cmds]
    ELSE LET r == FieldCommand(a, FieldOrder[i])
         IN  IF r.ok THEN ResolveFields(a, i + 1, cmds \o r.cmds)
             ELSE r

\* only Set and Print count as a use of the field
UsedPrintForgotten(cmds) ==
    { cmds[i].field : i \in {j \in 1..Len(cmds) : cmds[j].op = "Set"} }

\* the fields of the Set and Print commands
Used(cmds) ==
    { cmds[i].field : i \in {j \in 1..Len(cmds) : cmds[j].op \in {"Set", "Print"}} }

\* the conflict test left out: a known field is always cleared
ClearOutcomeNoConflict(str, used) ==
    IF str_to_field(str) # <<>> THEN "push" ELSE "unknown"

\* the body of the loop over matches.opt_strs("clear"), for one string
ClearOutcome(str, used) ==
    LET f == str_to_field(str)
    IN  IF f # <<>>
        THEN IF f[1] \notin used THEN "push" ELSE "conflict"
        ELSE "unknown"

\* the loop over matches.opt_strs("clear"): the first error returns
RECURSIVE ResolveClear(_, _, _)
ResolveClear(strs, used, acc) ==
    IF strs = <<>> THEN [ok |-> TRUE, code |-> 0, msg |-> "", cmds |-> acc]
    ELSE LET oc == ClearOutcome(Head(strs), used)
         IN  IF oc = "push"
             THEN ResolveClear(Tail(strs), used,
                               Append(acc, CmdClear(str_to_field(Head(strs))[1])))
             ELSE IF oc = "conflict"
             THEN [ok |-> FALSE, code |-> 5, msg |-> "cannot clear and set/print",
                   cmds |-> <<>>]
             ELSE [ok |-> FALSE, code |-> 4, msg |-> "field does not exist", cmds |-> <<>>]

ConfigNew(a) ==
    IF ~a.parsed THEN Err(1, "bad arguments", a)
    ELSE IF Len(a.free) = 0 THEN Err(6, "no files specified", a)
    ELSE IF \E i \in 1..Len(a.free) : ~IsFile(a.free[i])
         THEN Err(2, "file does not exist", a)
    ELSE IF a.help THEN Err(0, "usage", a)
    ELSE LET fr == ResolveFields(a, 1, <<>>)
         IN  IF ~fr.ok THEN Err(fr.code, fr.msg, a)
             ELSE LET cr == ResolveClear(a.clear, Used(fr.cmds), <<>>)
                  IN  IF ~cr.ok THEN Err(cr.code, cr.msg, a)
                      ELSE Ok(fr.cmds \o cr.cmds, a)

(***************************************************************************)
(* The tag store (lofty AudioTag) as Config::exec uses it                  *)
(***************************************************************************)
Max(x, y) == IF x >= y THEN x ELSE y

\* `as u32` of the i32 it is applied to here, cmp::max(i, 0): not negative,
\* so the cast keeps the value
AsU32(x) == x

\* set_year given the clamped number as well
StoreIntYearClamped(f, i) == AsU32(Max(i, 0))

\* the number the integer setters are given
StoreInt(f, i) ==
    IF f \in {"Disc", "Track"} THEN AsU32(Max(i, 0)) ELSE i

Picture(buf, mime) == [data |-> buf, mime |-> mime]

\* unwrap_or(0) and unwrap_or("") of the getters
IntOr0(t, f) == IF t[f] = <<>> THEN 0 ELSE t[f][1]

StrOrEmpty(t, f) == IF t[f] = <<>> THEN "" ELSE t[f][1]

\* printout: the eight lines of the summary
printout(t) ==
    << <<"Disc", IntOr0(t, "Disc")>>,
       <<"Track", IntOr0(t, "Track")>>,
       <<"Title", StrOrEmpty(t, "Title")>>,
       <<"Artist", StrOrEmpty(t, "Artist")>>,
       <<"Album", StrOrEmpty(t, "Album")>>,
       <<"Album Arist", StrOrEmpty(t, "AlbumArtist")>>,
       <<"Image", IF t["Image"] # <<>> THEN "Present" ELSE "No image">>,
       <<"Year", IntOr0(t, "Year")>> >>

\* the Year arm reading track_number
PrintValueYearFromTrack(t, f) ==
    IF f \in IntFields THEN <<IntOr0(t, IF f = "Year" THEN "Track" ELSE f)>>
    ELSE IF f \in StrFields THEN <<StrOrEmpty(t, f)>>
    ELSE IF t[f] # <<>> THEN <<t[f][1].data>> ELSE <<>>

\* what Command::Print writes for a field: the number, the string, or the
\* bytes of the cover (nothing but the newline when there is none)
PrintValue(t, f) ==
    IF f \in IntFields THEN <<IntOr0(t, f)>>
    ELSE IF f \in StrFields THEN <<StrOrEmpty(t, f)>>
    ELSE IF t[f] # <<>> THEN <<t[f][1].data>> ELSE <<>>

\* the lines written to standard output
OutPrint(i, f, v) == [idx |-> i, kind |-> "print", field |-> f, val |-> v]

OutSummary(i, t) == [idx |-> i, kind |-> "summary", field |-> "", val |-> printout(t)]

OutError(m) == [idx |-> 0, kind |-> "error", field |-> "", val |-> <<m>>]

(***************************************************************************)
(* State                                                                   *)
(***************************************************************************)
VARIABLES
    pc,            \* "idle" before the first invocation, "exec" inside Config::exec, "exited"
    invLeft,       \* the invocations the run may still start
    optCap,        \* the options one invocation may give
    fileCap,       \* the free arguments one invocation may give
    args,          \* the Matches of the current invocation
    resolution,    \* "none", or what Config::new returned: "ok" or "err"
    commands,      \* Config.commands
    files,         \* Config.files
    code,          \* the exit status: <<>> while running
    msg,           \* the error_str printed before exiting
    fileIdx,       \* the position of `for f in &self.files`
    cmdIdx,        \* the position of `for c in &self.commands`; 0: no session open
    tag,           \* the tag of the open session
    need_to_write,
    did_print,
    stdin,         \* standard input: Unread, or what a further read yields
    out,           \* standard output of the current invocation
    disk,          \* the tag container of each audio file
    disk0,         \* history: disk when the invocation started
    diskAtOpen,    \* history: disk when the current file was opened
    opened,        \* history: the file positions read_from_path_signature was called on
    writeCalls,    \* history: the file positions write_to_path was called on
    written,       \* history: the successful writes, [idx, path, tag]
    applied,       \* history: the file positions whose command loop completed
    finished,      \* history: the file positions whose loop body completed
    failure,       \* history: "none", or where exec failed: "open", "command", "write"
    failedAt,      \* history: the file position exec failed on, 0 if none
    prevSets,      \* history: the Set commands the previous invocation wrote, per path
    trace          \* history: the commands exec dispatched, [idx, cmd], in order

vars == <<pc, invLeft, optCap, fileCap, args, resolution, commands, files, code, msg, fileIdx, cmdIdx,
          tag, need_to_write, did_print, stdin, out, disk, disk0, diskAtOpen, opened,
          writeCalls, written, applied, finished, failure, failedAt, prevSets,
          trace>>

\* a tag with every field stored, as an earlier run leaves it
FullTag ==
    [f \in Fields |->
        IF f \in IntFields THEN <<1>>
        ELSE IF f \in StrFields THEN <<"old">>
        ELSE <<Picture("png-bytes", "Png")>>]

InitState ==
    /\ pc = "idle"
    /\ args = BadArgs
    /\ resolution = "none"
    /\ commands = <<>>
    /\ files = <<>>
    /\ code = <<>>
    /\ msg = ""
    /\ fileIdx = 1
    /\ cmdIdx = 0
    /\ tag = EmptyTag
    /\ need_to_write = FALSE
    /\ did_print = FALSE
    /\ stdin = Unread
    /\ out = <<>>
    /\ disk \in [AudioPaths -> {EmptyTag, FullTag}]
    /\ disk0 = disk
    /\ diskAtOpen = disk
    /\ opened = <<>>
    /\ writeCalls = <<>>
    /\ written = <<>>
    /\ applied = {}
    /\ finished = {}
    /\ failure = "none"
    /\ failedAt = 0
    /\ prevSets = {}
    /\ trace = <<>>

\* a run of one invocation
Init ==
    /\ InitState
    /\ invLeft = 1
    /\ optCap = MaxOpts
    /\ fileCap = MaxFiles

\* a run of several invocations on the same files
InitTwo ==
    /\ InitState
    /\ \E t \in {EmptyTag, FullTag} : disk = [p \in AudioPaths |-> t]
    /\ invLeft = MaxInvocations
    /\ optCap = MaxOptsEach
    /\ fileCap = MaxFilesEach

(***************************************************************************)
(* main                                                                    *)
(***************************************************************************)
\* exec entered whatever Config::new returned
ProceedsAlways(r) == TRUE

\* main's match on the result of Config::new: exec runs on Ok only
Proceeds(r) == r.ok

\* the Set commands of the invocation that ends, for each path it wrote
SetsWritten ==
    { [path |-> written[k].path, cmd |-> commands[j]]
      : k \in 1..Len(written), j \in {i \in 1..Len(commands) : commands[i].op = "Set"} }

\* a process starts: Config::new, then print_err or the entry to Config::exec
Main ==
    /\ pc \in {"idle", "exited"}
    /\ invLeft > 0
    /\ \E a \in ArgSpace(optCap, fileCap) :
         LET r == ConfigNew(a)
         IN  /\ args' = a
             /\ resolution' = IF r.ok THEN "ok" ELSE "err"
             /\ \/ /\ Proceeds(r)
                   /\ pc' = "exec"
                   /\ commands' = r.commands
                   /\ files' = r.files
                   /\ code' = <<>>
                   /\ msg' = ""
                   /\ out' = <<>>
                \/ /\ ~Proceeds(r)
                   /\ pc' = "exited"
                   /\ commands' = <<>>
                   /\ files' = <<>>
                   /\ code' = <<r.code>>
                   /\ msg' = r.msg
                   /\ out' = <<OutError(r.msg)>>
    /\ invLeft' = invLeft - 1
    /\ fileIdx' = 1
    /\ cmdIdx' = 0
    /\ tag' = EmptyTag
    /\ need_to_write' = FALSE
    /\ did_print' = FALSE
    /\ stdin' = Unread
    /\ disk0' = disk
    /\ diskAtOpen' = disk
    /\ opened' = <<>>
    /\ writeCalls' = <<>>
    /\ written' = <<>>
    /\ applied' = {}
    /\ finished' = {}
    /\ failure' = "none"
    /\ failedAt' = 0
    /\ prevSets' = SetsWritten
    /\ trace' = <<>>
    /\ UNCHANGED <<disk, optCap, fileCap>>

(***************************************************************************)
(* Config::exec                                                            *)
(***************************************************************************)
\* `return Err(..)` skipped: the loop over the files goes on
AbortContinues(c, m, kind) ==
    /\ pc' = "exec"
    /\ code' = code
    /\ msg' = m
    /\ failure' = kind
    /\ failedAt' = fileIdx
    /\ out' = Append(out, OutError(m))
    /\ fileIdx' = fileIdx + 1
    /\ cmdIdx' = 0

\* `return Err(Error::new(.., c))` inside exec, and main's print_err
Abort(c, m, kind) ==
    /\ pc' = "exited"
    /\ code' = <<c>>
    /\ msg' = m
    /\ failure' = kind
    /\ failedAt' = fileIdx
    /\ out' = Append(out, OutError(m))
    /\ UNCHANGED <<fileIdx, cmdIdx>>

\* the session written back when exec returns early
SessionFlushed(d, p, t) == [d EXCEPT ![p] = t]

\* an early return drops the session of file p, its tag t unwritten
SessionDropped(d, p, t) == d

\* the head of the loop body: the session is opened; with no commands the
\* summary is printed and the body is over
ExecOpen ==
    /\ pc = "exec"
    /\ cmdIdx = 0
    /\ fileIdx <= Len(files)
    /\ opened' = Append(opened, fileIdx)
    /\ diskAtOpen' = disk
    /\ LET f == files[fileIdx]
       IN  \/ /\ f \notin AudioPaths
              /\ Abort(7, "failure to open for editing", "open")
              /\ UNCHANGED <<tag, applied, finished>>
           \/ /\ f \in AudioPaths
              /\ commands = <<>>
              /\ out' = Append(out, OutSummary(fileIdx, disk[f]))
              /\ fileIdx' = fileIdx + 1
              /\ applied' = applied \cup {fileIdx}
              /\ finished' = finished \cup {fileIdx}
              /\ UNCHANGED <<pc, code, msg, failure, failedAt, cmdIdx, tag>>
           \/ /\ f \in AudioPaths
              /\ commands # <<>>
              /\ tag' = disk[f]
              /\ cmdIdx' = 1
              /\ UNCHANGED <<pc, code, msg, failure, failedAt, out, fileIdx, applied, finished>>
    /\ need_to_write' = FALSE
    /\ did_print' = FALSE
    /\ UNCHANGED <<invLeft, optCap, fileCap, args, resolution, commands, files, stdin, disk, disk0,
                   writeCalls, written, prevSets,
                   trace>>

\* `match c` reached for command c in the loop body of the file at position i
Dispatched(i, c) == [idx |-> i, cmd |-> c]

AtCommand(op) ==
    /\ pc = "exec"
    /\ cmdIdx \in 1..Len(commands)
    /\ commands[cmdIdx].op = op

\* Command::Set
ExecSet ==
    /\ AtCommand("Set")
    /\ trace' = Append(trace, Dispatched(fileIdx, commands[cmdIdx]))
    /\ need_to_write' = TRUE
    /\ LET f == commands[cmdIdx].field
           d == commands[cmdIdx].data
           p == files[fileIdx]
       IN  \/ /\ f \in IntFields
              /\ tag' = [tag EXCEPT ![f] = <<StoreInt(f, d.int)>>]
              /\ cmdIdx' = cmdIdx + 1
              /\ UNCHANGED <<pc, code, msg, failure, failedAt, out, fileIdx, stdin, disk>>
           \/ /\ f \in StrFields
              /\ tag' = [tag EXCEPT ![f] = <<d.str>>]
              /\ cmdIdx' = cmdIdx + 1
              /\ UNCHANGED <<pc, code, msg, failure, failedAt, out, fileIdx, stdin, disk>>
           \/ \* File::open or read_to_end fails
              /\ f = "Image"
              /\ d.kind = "File"
              /\ Abort(2, "issue when opening or reading image file", "command")
              /\ disk' = SessionDropped(disk, p, tag)
              /\ UNCHANGED <<tag, stdin>>
           \/ \* stdin.read_to_end fails
              /\ f = "Image"
              /\ d.kind = "StdIn"
              /\ Abort(2, "issue when reading stdin", "command")
              /\ disk' = SessionDropped(disk, p, tag)
              /\ UNCHANGED <<tag, stdin>>
           \/ /\ f = "Image"
              /\ \E buf \in (IF d.kind = "File" THEN {FileBytes(d.str)}
                              ELSE IF stdin = Unread THEN Piped ELSE {stdin}) :
                 LET mime == MimeOf(Sniff(buf))
                 IN  /\ stdin' = IF d.kind = "StdIn" THEN Exhausted ELSE stdin
                     /\ \/ /\ mime = <<>>
                           /\ Abort(2, "unsupported image format", "command")
                           /\ disk' = SessionDropped(disk, p, tag)
                           /\ UNCHANGED tag
                        \/ /\ mime # <<>>
                           /\ tag' = [tag EXCEPT ![f] = <<Picture(buf, mime[1])>>]
                           /\ cmdIdx' = cmdIdx + 1
                           /\ UNCHANGED <<pc, code, msg, failure, failedAt, out, fileIdx,
                                          disk>>
    /\ UNCHANGED <<invLeft, optCap, fileCap, args, resolution, commands, files, did_print,
                   disk0, diskAtOpen, opened, writeCalls, written, applied, finished,
                   prevSets>>

\* Command::Clear without `need_to_write = true`
ExecClearForgetsWrite ==
    /\ AtCommand("Clear")
    /\ trace' = Append(trace, Dispatched(fileIdx, commands[cmdIdx]))
    /\ tag' = [tag EXCEPT ![commands[cmdIdx].field] = <<>>]
    /\ cmdIdx' = cmdIdx + 1
    /\ UNCHANGED <<pc, invLeft, optCap, fileCap, args, resolution, commands, files, code, msg,
                   fileIdx, need_to_write, did_print, stdin, out, disk, disk0, diskAtOpen,
                   opened, writeCalls, written, applied, finished, failure, failedAt,
                   prevSets>>

\* Command::Clear
ExecClear ==
    /\ AtCommand("Clear")
    /\ trace' = Append(trace, Dispatched(fileIdx, commands[cmdIdx]))
    /\ need_to_write' = TRUE
    /\ tag' = [tag EXCEPT ![commands[cmdIdx].field] = <<>>]
    /\ cmdIdx' = cmdIdx + 1
    /\ UNCHANGED <<pc, invLeft, optCap, fileCap, args, resolution, commands, files, code, msg, fileIdx,
                   did_print, stdin, out, disk, disk0, diskAtOpen, opened, writeCalls,
                   written, applied, finished, failure, failedAt, prevSets>>

\* Command::Print without `did_print = true`
ExecPrintForgets ==
    /\ AtCommand("Print")
    /\ trace' = Append(trace, Dispatched(fileIdx, commands[cmdIdx]))
    /\ LET f == commands[cmdIdx].field
       IN  \/ /\ out' = Append(out, OutPrint(fileIdx, f, PrintValue(tag, f)))
              /\ cmdIdx' = cmdIdx + 1
              /\ UNCHANGED <<pc, code, msg, failure, failedAt, fileIdx, disk>>
           \/ /\ f = "Image"
              /\ tag[f] # <<>>
              /\ Abort(2, "error when trying to print image to stdout", "command")
              /\ disk' = SessionDropped(disk, files[fileIdx], tag)
    /\ UNCHANGED <<invLeft, optCap, fileCap, args, resolution, commands, files, tag,
                   need_to_write, did_print, stdin, disk0, diskAtOpen, opened, writeCalls,
                   written, applied, finished, prevSets>>

\* Command::Print
ExecPrint ==
    /\ AtCommand("Print")
    /\ trace' = Append(trace, Dispatched(fileIdx, commands[cmdIdx]))
    /\ did_print' = TRUE
    /\ LET f == commands[cmdIdx].field
       IN  \/ /\ out' = Append(out, OutPrint(fileIdx, f, PrintValue(tag, f)))
              /\ cmdIdx' = cmdIdx + 1
              /\ UNCHANGED <<pc, code, msg, failure, failedAt, fileIdx, disk>>
           \/ \* io::stdout().write_all(p.data) fails
              /\ f = "Image"
              /\ tag[f] # <<>>
              /\ Abort(2, "error when trying to print image to stdout", "command")
              /\ disk' = SessionDropped(disk, files[fileIdx], tag)
    /\ UNCHANGED <<invLeft, optCap, fileCap, args, resolution, commands, files, tag,
                   need_to_write, stdin, disk0, diskAtOpen, opened, writeCalls, written,
                   applied, finished, prevSets>>

\* after the command loop: write_to_path when need_to_write, the summary
\* when nothing was printed; the session is dropped
ExecFinish ==
    /\ pc = "exec"
    /\ cmdIdx = Len(commands) + 1
    /\ applied' = applied \cup {fileIdx}
    /\ writeCalls' = IF need_to_write THEN Append(writeCalls, fileIdx) ELSE writeCalls
    /\ LET f == files[fileIdx]
       IN  \/ \* tag.write_to_path(f) fails
              /\ need_to_write
              /\ Abort(2, "failed to write new tags", "write")
              /\ UNCHANGED <<disk, written, finished, tag>>
           \/ /\ disk' = IF need_to_write THEN [disk EXCEPT ![f] = tag] ELSE disk
              /\ written' = IF need_to_write
                            THEN Append(written, [idx |-> fileIdx, path |-> f, tag |-> tag])
                            ELSE written
              /\ out' = IF ~did_print THEN Append(out, OutSummary(fileIdx, tag)) ELSE out
              /\ finished' = finished \cup {fileIdx}
              /\ fileIdx' = fileIdx + 1
              /\ cmdIdx' = 0
              /\ tag' = EmptyTag
              /\ UNCHANGED <<pc, code, msg, failure, failedAt>>
    /\ UNCHANGED <<invLeft, optCap, fileCap, args, resolution, commands, files, need_to_write,
                   did_print, stdin, disk0, diskAtOpen, opened, prevSets,
                   trace>>

\* Ok(()) after the last file, and main returns
ExecReturn ==
    /\ pc = "exec"
    /\ cmdIdx = 0
    /\ fileIdx > Len(files)
    /\ pc' = "exited"
    /\ code' = <<0>>
    /\ UNCHANGED <<invLeft, optCap, fileCap, args, resolution, commands, files, msg, fileIdx, cmdIdx,
                   tag, need_to_write, did_print, stdin, out, disk, disk0, diskAtOpen,
                   opened, writeCalls, written, applied, finished, failure, failedAt,
                   prevSets,
                   trace>>

Next ==
    \/ Main
    \/ ExecOpen
    \/ ExecSet
    \/ ExecClear
    \/ ExecPrint
    \/ ExecFinish
    \/ ExecReturn

Spec == Init /\ [][Next]_vars

SpecTwo == InitTwo /\ [][Next]_vars

(***************************************************************************)
(* Properties                                                              *)
(***************************************************************************)
Range(q) == { q[i] : i \in 1..Len(q) }

\* the number of positions of q holding x
Count(q, x) == Cardinality({ i \in 1..Len(q) : q[i] = x })

\* C1: whenever Config::new returned an error (exit codes 0 for help, 1 to
\* 6), no target file has been opened for editing or written: nothing of
\* exec has happened and the disk is as the invocation found it.
C1_ResolutionErrorTouchesNoFile ==
    resolution = "err" =>
        /\ opened = <<>>
        /\ writeCalls = <<>>
        /\ written = <<>>
        /\ disk = disk0
        /\ code # <<>> => code[1] \in 0..6

\* the last validation (the clear/set conflict) failed, on existing files
C1_Witness ==
    /\ pc = "exited"
    /\ resolution = "err"
    /\ code = <<5>>
    /\ args.free # <<>>
    /\ \A i \in 1..Len(args.free) : args.free[i] \in AudioPaths

\* C2: in every command list Config::new returns successfully, no field is
\* both in a Clear command and in a Set or Print command.
C2_ClearDisjointFromSetPrint ==
    resolution = "ok" =>
        \A i, j \in 1..Len(commands) :
            (commands[i].op = "Clear" /\ commands[j].op \in {"Set", "Print"})
                => commands[i].field # commands[j].field

\* a resolved list with a Clear and a Print
C2_Witness ==
    /\ resolution = "ok"
    /\ \E i, j \in 1..Len(commands) : commands[i].op = "Clear" /\ commands[j].op = "Print"

\* the options name field f in a clear option and give f's own option
NamedInBoth(a, f) ==
    /\ a.opts[OptName(f)].present
    /\ \E i \in 1..Len(a.clear) : a.clear[i] = OptName(f)

\* the checks Config::new makes before it reaches the i-th clear option:
\* files given and existing, no help, integers and the image path valid,
\* the clear options before the i-th known
ChecksBeforeClearPass(a, i) ==
    /\ a.free # <<>>
    /\ \A k \in 1..Len(a.free) : a.free[k] \in RegularFiles
    /\ ~a.help
    /\ \A n \in {"track", "year", "disc"} :
          (a.opts[n].present /\ a.opts[n].val # <<>>) => a.opts[n].val[1] \in {"7", "-5", " 3 "}
    /\ (a.opts["image"].present /\ a.opts["image"].val # <<>>)
          => a.opts["image"].val[1] \in RegularFiles \cup {"-"}
    /\ \A k \in 1..(i - 1) : a.clear[k] \in ClearArgs \ {"bogus"}

\* the position of the first clear option naming a field whose own option is given
FirstConflict(a) ==
    CHOOSE i \in 1..Len(a.clear) :
        /\ \E f \in Fields : a.clear[i] = OptName(f) /\ a.opts[OptName(f)].present
        /\ \A k \in 1..(i - 1) :
              ~\E f \in Fields : a.clear[k] = OptName(f) /\ a.opts[OptName(f)].present

\* C3 as stated: a field named in a clear option and given its own option
\* makes resolution fail with exit code 5.
C3_ConflictAlwaysCode5 ==
    (pc # "idle" /\ args.parsed /\ \E f \in Fields : NamedInBoth(args, f))
        => (resolution = "err" /\ code = <<5>>)

\* C3 (amended): a field named in a clear option and given its own option
\* (with or without a value) makes resolution fail, whatever the position of
\* the clear option; the error is the clear/set conflict, exit code 5, when
\* no check that Config::new makes earlier fails first.
C3_ConflictFailsResolution ==
    (pc # "idle" /\ args.parsed /\ \E f \in Fields : NamedInBoth(args, f))
        => /\ resolution = "err"
           /\ pc = "exited"
           /\ ChecksBeforeClearPass(args, FirstConflict(args))
                 => (code = <<5>> /\ msg = "cannot clear and set/print")

\* the conflict is met on a print option, with files that exist
C3_Witness ==
    /\ pc = "exited"
    /\ args.parsed
    /\ NamedInBoth(args, "Title")
    /\ args.opts["title"].val = <<>>
    /\ args.free = <<"a.mp3", "b.mp3">>
    /\ code = <<5>>

\* C4: whenever the arguments parse and the help flag is present, the
\* invocation ends with exit code 0 and the usage text, and no command is
\* executed on any file.
C4_HelpExitsZero ==
    (pc # "idle" /\ args.parsed /\ args.help)
        => /\ pc = "exited"
           /\ code = <<0>>
           /\ msg = "usage"
           /\ opened = <<>>

HasMutation == \E j \in 1..Len(commands) : commands[j].op \in {"Set", "Clear"}

HasPrint == \E j \in 1..Len(commands) : commands[j].op = "Print"

\* the successful writes of the file at position i
WritesOf(i) == { k \in 1..Len(written) : written[k].idx = i }

\* C5: for each target file on which every command applied without error,
\* write_to_path is called exactly once when the list has a Set or Clear
\* command and not at all when it is empty or has only Print commands; a
\* file whose loop body completed was written that many times.
C5_WrittenOnceIffMutated ==
    resolution = "ok" =>
        \A i \in 1..Len(files) :
            /\ i \in applied => Count(writeCalls, i) = (IF HasMutation THEN 1 ELSE 0)
            /\ i \in finished => Cardinality(WritesOf(i)) = (IF HasMutation THEN 1 ELSE 0)
            /\ i \notin applied => Count(writeCalls, i) = 0

\* two files, a list of Clear commands only, each file written once
C5_Witness ==
    /\ pc = "exited"
    /\ code = <<0>>
    /\ files = <<"a.mp3", "b.mp3">>
    /\ commands # <<>>
    /\ \A j \in 1..Len(commands) : commands[j].op = "Clear"
    /\ writeCalls = <<1, 2>>
    /\ disk # disk0

\* C6: when applying a command fails (the image source cannot be read, its
\* format is not supported, or the image cannot be written to stdout), exec
\* returns exit code 2 and the file's tag container on disk is as it was
\* when the file was opened: the Set and Clear commands applied before the
\* failing one are not written.
C6_CommandFailureLeavesFile ==
    failure = "command" =>
        /\ pc = "exited"
        /\ code = <<2>>
        /\ disk = diskAtOpen
        /\ failedAt \notin Range(writeCalls)

\* the failing command follows a Set that changed the tag of the session
C6_Witness ==
    /\ failure = "command"
    /\ cmdIdx = 2
    /\ commands[1].op = "Set"
    /\ tag # diskAtOpen[files[fileIdx]]
    /\ msg = "unsupported image format"

\* C7: exec processes the files in the order given and stops at the first
\* file that fails (code 7 when it cannot be opened for editing, code 2 when
\* a command or the write-back fails): the files before it keep what was
\* written to them, and no file after it is opened, printed or written.
C7_StopsAtFirstFailure ==
    /\ opened = [k \in 1..Len(opened) |-> k]
    /\ failure # "none" =>
          /\ code = (IF failure = "open" THEN <<7>> ELSE <<2>>)
          /\ Len(opened) = failedAt
          /\ \A k \in 1..Len(out) : out[k].idx <= failedAt
          /\ \A k \in 1..Len(writeCalls) : writeCalls[k] <= failedAt
          /\ \A k \in 1..Len(written) : written[k].idx < failedAt
          /\ applied \subseteq 1..failedAt
    /\ \A k \in 1..Len(written) :
          (\A l \in (k + 1)..Len(written) : written[l].path # written[k].path)
              => disk[written[k].path] = written[k].tag
    /\ \A p \in AudioPaths :
          (\A k \in 1..Len(written) : written[k].path # p) => disk[p] = disk0[p]

\* the second file fails after the first was written and changed
C7_Witness ==
    /\ pc = "exited"
    /\ failure # "none"
    /\ failedAt = 2
    /\ files[1] # files[2]
    /\ Len(written) = 1
    /\ written[1].idx = 1
    /\ disk[files[1]] # disk0[files[1]]
    /\ disk[files[1]] = written[1].tag

\* the number Set stores for an integer field, as the claim has it
Clamped(f, i) == IF f \in {"Track", "Disc"} /\ i < 0 THEN 0 ELSE i

\* C8: setting Track or Disc to a negative integer stores 0, setting Year
\* to a negative integer stores that integer, and a non-negative integer is
\* stored unchanged in all three fields: in the session once the command is
\* applied, and in the file once it is written.
C8_ClampTrackDiscNotYear ==
    \A j \in 1..Len(commands) :
        (commands[j].op = "Set" /\ commands[j].field \in IntFields) =>
            LET f == commands[j].field
                i == commands[j].data.int
            IN  /\ (pc = "exec" /\ j < cmdIdx) => tag[f] = <<Clamped(f, i)>>
                /\ \A k \in 1..Len(written) : written[k].tag[f] = <<Clamped(f, i)>>

\* --track=-5 --year=-5 written to a file
C8_Witness ==
    /\ commands = <<CmdSet("Track", DataInt(-5)), CmdSet("Year", DataInt(-5))>>
    /\ files # <<>>
    /\ pc = "exited"
    /\ code = <<0>>
    /\ disk[files[1]]["Track"] = <<0>>
    /\ disk[files[1]]["Year"] = <<-5>>

\* the summaries printed for the file at position i
SummariesOf(i) == { k \in 1..Len(out) : out[k].kind = "summary" /\ out[k].idx = i }

\* the label of a field in the summary
LabelOf(f) == IF f = "AlbumArtist" THEN "Album Arist" ELSE f

\* what the summary shows on the line of field f
Shown(val, f) == val[CHOOSE k \in 1..Len(val) : val[k][1] = LabelOf(f)][2]

\* what a summary shows for a stored value x (<<>> when none) of field f
ShownFor(f, x) ==
    IF f = "Image" THEN (IF x = <<>> THEN "No image" ELSE "Present")
    ELSE IF x = <<>> THEN (IF f \in IntFields THEN 0 ELSE "")
    ELSE x[1]

\* the value field f has after the commands, in a file that held tag t
AfterCommands(f, t) ==
    IF \E j \in 1..Len(commands) : commands[j].field = f /\ commands[j].op = "Clear"
    THEN <<>>
    ELSE IF \E j \in 1..Len(commands) : commands[j].field = f /\ commands[j].op = "Set"
    THEN LET c == commands[CHOOSE j \in 1..Len(commands) :
                               commands[j].field = f /\ commands[j].op = "Set"]
         IN  IF f \in IntFields THEN <<Clamped(f, c.data.int)>>
             ELSE IF f \in StrFields THEN <<c.data.str>>
             ELSE <<"some picture">>
    ELSE t[f]

\* C9: for each file processed without error the summary is printed exactly
\* once when the command list has no Print command (it is empty, or has only
\* Set and Clear commands) and not at all when it has a Print command; no
\* other file gets a summary; after Set and Clear commands the summary shows
\* the values those commands left.
C9_SummaryIffNoPrint ==
    resolution = "ok" =>
        \A i \in 1..Len(files) :
            /\ Cardinality(SummariesOf(i)) = (IF i \in finished /\ ~HasPrint THEN 1 ELSE 0)
            /\ \A k \in SummariesOf(i) : \A f \in Fields :
                  Shown(out[k].val, f) = ShownFor(f, AfterCommands(f, disk0[files[i]]))

\* a Set and a Clear on a file with every field stored, then the summary
C9_Witness ==
    /\ pc = "exited"
    /\ code = <<0>>
    /\ files = <<"a.mp3">>
    /\ disk0["a.mp3"] = FullTag
    /\ Len(commands) = 2
    /\ commands[1].op = "Set"
    /\ commands[2].op = "Clear"
    /\ Cardinality(SummariesOf(1)) = 1

\* the value a Set command was given: the integer, the string, or the bytes
\* of the image source
ValueGiven(c) ==
    IF c.data.kind = "Int" THEN c.data.int
    ELSE IF c.data.kind = "Str" THEN c.data.str
    ELSE IF c.data.kind = "File" THEN FileBytes(c.data.str)
    ELSE StdinBytes

\* the invocation that ended only printed one field, and succeeded
PrintedOnly(f) ==
    /\ pc = "exited"
    /\ code = <<0>>
    /\ commands = <<CmdPrint(f)>>

\* the file at position i got the line v for field f
Emitted(i, f, v) ==
    \E k \in 1..Len(out) :
        /\ out[k].kind = "print"
        /\ out[k].idx = i
        /\ out[k].field = f
        /\ out[k].val = <<v>>

\* C10 as stated: an invocation that sets a field on a file, followed by an
\* invocation that only prints the field on that file, emits the value set.
C10_RoundTripExact ==
    \A f \in Fields : PrintedOnly(f) =>
        \A i \in 1..Len(files) : \A s \in prevSets :
            (s.path = files[i] /\ s.cmd.field = f) => Emitted(i, f, ValueGiven(s.cmd))

\* C10 (amended): an invocation that sets a field on a file, followed by an
\* invocation that only prints the field on that file, emits the value set,
\* except that a negative Track or Disc is emitted as 0.
C10_RoundTripClamped ==
    \A f \in Fields : PrintedOnly(f) =>
        \A i \in 1..Len(files) : \A s \in prevSets :
            (s.path = files[i] /\ s.cmd.field = f) =>
                Emitted(i, f, IF f \in IntFields THEN Clamped(f, ValueGiven(s.cmd))
                              ELSE ValueGiven(s.cmd))

\* --year=-5 on a.mp3, then --year on a.mp3 prints -5
C10_Witness ==
    /\ PrintedOnly("Year")
    /\ files = <<"a.mp3">>
    /\ prevSets = {[path |-> "a.mp3", cmd |-> CmdSet("Year", DataInt(-5))]}
    /\ Emitted(1, "Year", -5)

\* the place of a field in the order Track, Year, Disc, Title, Artist,
\* Album, AlbumArtist, Image
Rank(f) ==
    CASE f = "Track" -> 1 [] f = "Year" -> 2 [] f = "Disc" -> 3 [] f = "Title" -> 4
      [] f = "Artist" -> 5 [] f = "Album" -> 6 [] f = "AlbumArtist" -> 7 [] f = "Image" -> 8

\* C11: the command list of a successful resolution holds one Set or Print
\* command for each field option given and no other (Print when the option
\* has no value), in the order Track, Year, Disc, Title, Artist, Album,
\* AlbumArtist, Image, followed by one Clear command for each clear option,
\* in the order the clear options were given; exec dispatches the commands
\* of each file in this order, so no Set or Print follows a Clear.
C11_ListOrderAndExecOrder ==
    resolution = "ok" =>
        LET n == Len(commands) - Len(args.clear)
        IN  /\ n >= 0
            /\ \A i \in 1..n :
                  /\ commands[i].op \in {"Set", "Print"}
                  /\ args.opts[OptName(commands[i].field)].present
                  /\ commands[i].op = "Print"
                        <=> args.opts[OptName(commands[i].field)].val = <<>>
            /\ \A i, j \in 1..n : i < j => Rank(commands[i].field) < Rank(commands[j].field)
            /\ \A f \in Fields :
                  args.opts[OptName(f)].present => \E i \in 1..n : commands[i].field = f
            /\ \A k \in 1..Len(args.clear) :
                  /\ commands[n + k].op = "Clear"
                  /\ OptName(commands[n + k].field) = args.clear[k]
            /\ \A k \in 1..Len(trace) :
                  /\ trace[k].idx = ((k - 1) \div Len(commands)) + 1
                  /\ trace[k].cmd = commands[((k - 1) % Len(commands)) + 1]
            /\ \A i \in applied : Len(trace) >= i * Len(commands)
            /\ \A k, l \in 1..Len(trace) :
                  (k < l /\ trace[k].idx = trace[l].idx)
                      => ~(trace[k].cmd.op = "Clear" /\ trace[l].cmd.op # "Clear")

\* --clear track --title=foo on two files: Set(Title) then Clear(Track), on
\* the first file and then on the second
C11_Witness ==
    /\ pc = "exited"
    /\ code = <<0>>
    /\ commands = <<CmdSet("Title", DataStr("foo")), CmdClear("Track")>>
    /\ Len(files) = 2
    /\ Len(trace) = 4
    /\ trace[3] = Dispatched(2, commands[1])

\* the list has Set(Image, StdIn)
UsesStdin == \E j \in 1..Len(commands) : commands[j] = CmdSet("Image", DataStdIn)

\* the run ended with the unsupported-format error on the second file, the
\* first file written with the piped image and no later file written
EndedOnSecondFile ==
    /\ code = <<2>>
    /\ msg = "unsupported image format"
    /\ failure = "command"
    /\ failedAt = 2
    /\ Cardinality(WritesOf(1)) = 1
    /\ \A k \in WritesOf(1) : written[k].tag["Image"] = <<Picture(StdinBytes, "Jpeg")>>
    /\ disk[files[1]]["Image"] = <<Picture(StdinBytes, "Jpeg")>>
    /\ \A k \in 1..Len(writeCalls) : writeCalls[k] < 2

====
